---- MODULE Spec2Model ----
(***************************************************************************)
(* The cart state manager of public/script.js (AppState), its mirror in    *)
(* localStorage, the view it renders and the checkout form that drains it. *)
(*                                                                         *)
(* One page of the shop is modelled: it shows product cards, the cart      *)
(* rows with their quantity controls, the badge, the total and the         *)
(* checkout form.  Every action is one handler of the single-threaded      *)
(* event loop, run to completion; the checkout handler is split at its     *)
(* only await (the order request).                                         *)
(*                                                                         *)
(* Money is counted in cents.  A JavaScript number that a quantity, a sum  *)
(* or a handler argument can hold is a record: Num(n), NaN, or Null (what  *)
(* JSON.stringify writes for NaN and JSON.parse reads back).               *)
(***************************************************************************)
EXTENDS Integers, Sequences, FiniteSets

\* Bound of the model: the largest quantity a handler is let to write.
MaxQty == 2

----------------------------------------------------------------------------
\* JavaScript values and the arithmetic the code applies to them.

Num(n) == [k |-> "num", n |-> n]
NaN == [k |-> "nan", n |-> 0]
Null == [k |-> "null", n |-> 0]

\* ToNumber: null coerces to 0 in + , * , - and Math.max.
ToNumber(v) == IF v.k = "null" THEN Num(0) ELSE v

Plus(a, b) ==
  LET x == ToNumber(a)
      y == ToNumber(b)
  IN IF x.k = "nan" \/ y.k = "nan" THEN NaN ELSE Num(x.n + y.n)

Times(a, b) ==
  LET x == ToNumber(a)
      y == ToNumber(b)
  IN IF x.k = "nan" \/ y.k = "nan" THEN NaN ELSE Num(x.n * y.n)

\* Math.max(1, quantity): NaN if quantity is NaN.
MathMaxNoClamp(q) == ToNumber(q)
MathMax1(q) ==
  LET x == ToNumber(q)
  IN IF x.k = "nan" THEN NaN ELSE IF x.n > 1 THEN x ELSE Num(1)

\* parseInt(this.value) on the text of the quantity field: an optional sign,
\* then digits up to the first other character; NaN when no digit is read.
DigitVal ==
  [c \in {"0", "1", "2", "3", "4", "5", "6", "7", "8", "9"} |->
     CASE c = "0" -> 0 [] c = "1" -> 1 [] c = "2" -> 2 [] c = "3" -> 3
       [] c = "4" -> 4 [] c = "5" -> 5 [] c = "6" -> 6 [] c = "7" -> 7
       [] c = "8" -> 8 [] c = "9" -> 9]

IsDigit(c) == c \in DOMAIN DigitVal

RECURSIVE ParseDigits(_, _, _)
ParseDigits(t, i, acc) ==
  IF i > Len(t) \/ ~IsDigit(t[i]) THEN acc
  ELSE ParseDigits(t, i + 1, acc * 10 + DigitVal[t[i]])

parseInt(t) ==
  LET signed == Len(t) >= 1 /\ t[1] \in {"-", "+"}
      start == IF signed THEN 2 ELSE 1
      mag == ParseDigits(t, start, 0)
  IN IF start > Len(t) \/ ~IsDigit(t[start]) THEN NaN
     ELSE IF signed /\ t[1] = "-" THEN Num(0 - mag) ELSE Num(mag)

\* Texts a user can leave in the quantity field: empty, "0", "-1", "2", "1.5".
FieldTexts ==
  { <<>>, <<"0">>, <<"-", "1">>, <<"2">>, <<"1", ".", "5">> }

----------------------------------------------------------------------------
\* The catalogue and the product cards of the page.

mockProducts ==
  << [id |-> 1, name |-> "Wireless Headphones", price |-> 9999],
     [id |-> 2, name |-> "Smart Watch", price |-> 29999],
     [id |-> 3, name |-> "Laptop Stand", price |-> 4999],
     [id |-> 4, name |-> "USB-C Hub", price |-> 7999],
     [id |-> 5, name |-> "Wireless Mouse", price |-> 3999],
     [id |-> 6, name |-> "Mechanical Keyboard", price |-> 14999] >>

\* The data-id values of the product cards on the page.
CardIds == {1, 2}

\* Title/price texts a card can carry: the click handler reads them from the
\* DOM at click time, so two clicks on one id need not read the same texts.
Listings == {1, 3}

\* The cart never renders more rows than there are card ids.
MaxRows == Cardinality(CardIds)

\* The product object the click handler builds from a card.
ProductCards ==
  { [id |-> i, name |-> mockProducts[j].name, price |-> mockProducts[j].price] :
      i \in CardIds, j \in Listings }

----------------------------------------------------------------------------
\* AppState: the cart operations as functions of the cart sequence.

\* this.cart.find(item => item.id === id): index of the first match, 0 if none.
RECURSIVE FindFrom(_, _, _)
FindFrom(c, id, i) ==
  IF i > Len(c) THEN 0
  ELSE IF c[i].id = id THEN i
  ELSE FindFrom(c, id, i + 1)

Find(c, id) == FindFrom(c, id, 1)

addToCartAlwaysPush(c, product) ==
  Append(c, [id |-> product.id, name |-> product.name,
             price |-> product.price, quantity |-> Num(1)])

addToCartOverwrite(c, product) ==
  LET i == Find(c, product.id)
  IN IF i > 0
     THEN [c EXCEPT ![i] = [id |-> product.id, name |-> product.name,
                            price |-> product.price,
                            quantity |-> Plus(c[i].quantity, Num(1))]]
     ELSE addToCartAlwaysPush(c, product)

addToCart(c, product) ==
  LET i == Find(c, product.id)
  IN IF i > 0
     THEN [c EXCEPT ![i].quantity = Plus(@, Num(1))]
     ELSE Append(c, [id |-> product.id, name |-> product.name,
                     price |-> product.price, quantity |-> Num(1)])

removeFromCart(c, productId) ==
  SelectSeq(c, LAMBDA item : item.id # productId)

updateQuantity(c, productId, quantity) ==
  LET i == Find(c, productId)
  IN IF i > 0 THEN [c EXCEPT ![i].quantity = MathMax1(quantity)] ELSE c

\* this.cart.reduce((total, item) => total + item.price * item.quantity, 0)
RECURSIVE getCartTotal(_)
getCartTotal(c) ==
  IF c = <<>> THEN Num(0)
  ELSE Plus(getCartTotal(SubSeq(c, 1, Len(c) - 1)),
            Times(Num(c[Len(c)].price), c[Len(c)].quantity))

\* this.cart.reduce((sum, item) => sum + item.quantity, 0)
RECURSIVE totalItems(_)
totalItems(c) ==
  IF c = <<>> THEN Num(0)
  ELSE Plus(totalItems(SubSeq(c, 1, Len(c) - 1)), c[Len(c)].quantity)

----------------------------------------------------------------------------
\* Persistence: the 'cart' entry of localStorage.

\* JSON.stringify writes null for NaN; every other number is written as it is.
JsonNumber(v) == IF v.k = "nan" THEN Null ELSE v

RECURSIVE JsonLines(_)
JsonLines(c) ==
  IF c = <<>> THEN <<>>
  ELSE Append(JsonLines(SubSeq(c, 1, Len(c) - 1)),
              [c[Len(c)] EXCEPT !.quantity = JsonNumber(@)])

\* The entry is absent, text that is no JSON ("garbage"), the JSON null, a JSON
\* object, or a JSON array of cart lines.
Absent == [kind |-> "absent", items |-> <<>>]
Garbage == [kind |-> "garbage", items |-> <<>>]
JsonNull == [kind |-> "null", items |-> <<>>]
JsonObject == [kind |-> "object", items |-> <<>>]
JsonArray(items) == [kind |-> "array", items |-> items]

\* saveCart: localStorage.setItem('cart', JSON.stringify(this.cart))
saveCart(c) == JsonArray(JsonLines(c))

\* JSON.parse(localStorage.getItem('cart')) || [] at module load, followed by
\* the DOMContentLoaded handler's updateCartUI():
\*   "ok"       the cart is an array and the handlers are registered;
\*   "failed"   JSON.parse threw a SyntaxError: AppState is never defined;
\*   "nonarray" the cart is a truthy non-array: updateCartUI throws a TypeError
\*              at this.cart.reduce and no handler is registered.
hydrate(s) ==
  CASE s.kind = "garbage" -> [state |-> "failed", cart |-> <<>>]
    [] s.kind \in {"absent", "null"} -> [state |-> "ok", cart |-> <<>>]
    [] s.kind = "object" -> [state |-> "nonarray", cart |-> <<>>]
    [] s.kind = "array" -> [state |-> "ok", cart |-> s.items]

----------------------------------------------------------------------------
\* The view.

\* toFixed(2) of an amount in cents: "NaN", or dollars and two cent digits.
toFixed2(v) ==
  LET x == ToNumber(v)
  IN IF x.k = "nan" THEN [k |-> "nan", dollars |-> 0, cents |-> 0]
     ELSE [k |-> "num", dollars |-> x.n \div 100, cents |-> x.n % 100]

\* renderCartItems: one row per line, whose handlers carry the id and the
\* arguments quantity - 1 and quantity + 1 computed when the row was rendered.
RECURSIVE renderCartItems(_)
renderCartItems(c) ==
  IF c = <<>> THEN <<>>
  ELSE Append(renderCartItems(SubSeq(c, 1, Len(c) - 1)),
              [id |-> c[Len(c)].id,
               minus |-> Plus(c[Len(c)].quantity, Num(-1)),
               plus |-> Plus(c[Len(c)].quantity, Num(1))])

\* updateCartUI: the badge, the rows and the total.
updateCartUI(c) ==
  [count |-> totalItems(c),
   rows |-> renderCartItems(c),
   total |-> toFixed2(getCartTotal(c))]

\* The page before any rendering (the script did not get to updateCartUI).
BlankView ==
  [count |-> Num(0), rows |-> <<>>, total |-> toFixed2(Num(0))]

----------------------------------------------------------------------------
\* State.

VARIABLES
  appState,      \* "ok", "failed" or "nonarray": how the script came up (hydrate)
  cart,          \* AppState.cart
  stored,        \* localStorage's 'cart' entry
  view,          \* what updateCartUI last rendered: count, rows, total
  notification,  \* the message the last handler passed to showNotification
  checkout,      \* "idle", or "pending": the checkout handler awaits createOrder
  order,         \* the body of the order request in flight
  event,         \* the call the last handler made: op, id, q
  addRun         \* per id: the addToCart calls made on it since it was absent
                 \* with no other operation on it, and the first call's product

vars ==
  <<appState, cart, stored, view, notification, checkout, order, event, addRun>>

NoOrder == [items |-> <<>>, total |-> Num(0)]
NoRun == [n |-> 0, name |-> "", price |-> 0]
NoRuns == [i \in CardIds |-> NoRun]

Event(op, id, q) == [op |-> op, id |-> id, q |-> q]

\* A quantity the model lets a handler write: NaN, or a number up to MaxQty.
InBound(v) == v.k # "num" \/ v.n <= MaxQty

----------------------------------------------------------------------------
\* Page load: the script's top level (hydration) and DOMContentLoaded.

PageLoad(s) ==
  /\ appState = hydrate(s).state
  /\ cart = hydrate(s).cart
  /\ stored = s
  /\ view = IF hydrate(s).state = "ok"
            THEN updateCartUI(hydrate(s).cart) ELSE BlankView
  /\ notification = "none"
  /\ checkout = "idle"
  /\ order = NoOrder
  /\ event = Event("load", 0, Null)
  /\ addRun = NoRuns

\* A first visit: nothing is stored.
Init == PageLoad(Absent)

\* The page is loaded again (a reload, a navigation, the redirect that follows
\* an order): an awaiting checkout handler is dropped with the old page.
Reload ==
  /\ appState' = hydrate(stored).state
  /\ cart' = hydrate(stored).cart
  /\ view' = IF hydrate(stored).state = "ok"
             THEN updateCartUI(hydrate(stored).cart) ELSE BlankView
  /\ notification' = "none"
  /\ checkout' = "idle"
  /\ order' = NoOrder
  /\ event' = Event("load", 0, Null)
  /\ addRun' = NoRuns
  /\ UNCHANGED stored

----------------------------------------------------------------------------
\* Cart handlers.  Each runs the operation, then saveCart, then updateCartUI.

\* The click handler of an .add-to-cart button calls addToCart(product).
AddToCartClick(product) ==
  /\ appState = "ok"
  /\ InBound(IF Find(cart, product.id) > 0
             THEN Plus(cart[Find(cart, product.id)].quantity, Num(1))
             ELSE Num(1))
  /\ cart' = addToCart(cart, product)
  /\ stored' = saveCart(cart')
  /\ view' = updateCartUI(cart')
  /\ notification' = "Product added to cart!"
  /\ event' = Event("addToCart", product.id, Null)
  /\ addRun' =
       IF Find(cart, product.id) = 0
       THEN [addRun EXCEPT ![product.id] =
               [n |-> 1, name |-> product.name, price |-> product.price]]
       ELSE IF addRun[product.id].n > 0
       THEN [addRun EXCEPT ![product.id].n = @ + 1]
       ELSE addRun
  /\ UNCHANGED <<appState, checkout, order>>

\* The Remove button of rendered row i calls removeFromCart(id).
RemoveClick(i) ==
  /\ appState = "ok"
  /\ i \in DOMAIN view.rows
  /\ cart' = removeFromCart(cart, view.rows[i].id)
  /\ stored' = saveCart(cart')
  /\ view' = updateCartUI(cart')
  /\ notification' = "Product removed from cart!"
  /\ event' = Event("removeFromCart", view.rows[i].id, Null)
  /\ addRun' = [addRun EXCEPT ![view.rows[i].id] = NoRun]
  /\ UNCHANGED <<appState, checkout, order>>

\* updateQuantity(productId, quantity) as a handler: nothing is saved, rendered
\* or notified when the id is not in the cart.
UpdateQuantityCall(productId, quantity) ==
  /\ appState = "ok"
  /\ InBound(quantity)
  /\ cart' = updateQuantity(cart, productId, quantity)
  /\ stored' = IF Find(cart, productId) > 0 THEN saveCart(cart') ELSE stored
  /\ view' = IF Find(cart, productId) > 0 THEN updateCartUI(cart') ELSE view
  /\ notification' = "none"
  /\ event' = Event("updateQuantity", productId, quantity)
  /\ addRun' = IF Find(cart, productId) > 0
               THEN [addRun EXCEPT ![productId] = NoRun] ELSE addRun
  /\ UNCHANGED <<appState, checkout, order>>

\* The - and + buttons of rendered row i, and a change of its quantity field.
MinusClick(i) ==
  /\ i \in DOMAIN view.rows
  /\ UpdateQuantityCall(view.rows[i].id, view.rows[i].minus)

PlusClick(i) ==
  /\ i \in DOMAIN view.rows
  /\ UpdateQuantityCall(view.rows[i].id, view.rows[i].plus)

QuantityChange(i, text) ==
  /\ i \in DOMAIN view.rows
  /\ UpdateQuantityCall(view.rows[i].id, parseInt(text))

----------------------------------------------------------------------------
\* The checkout form.

\* Submit with a field that fails validateForm: a notification and nothing else.
SubmitInvalid ==
  /\ appState = "ok"
  /\ checkout = "idle"
  /\ notification' = "Please fix the errors in the form"
  /\ event' = Event("submitInvalid", 0, Null)
  /\ UNCHANGED <<appState, cart, stored, view, checkout, order, addRun>>

\* Submit of a valid form, up to the await: the submit button is disabled and
\* createOrder serializes {items: cart, total: getCartTotal()} into the request.
CheckoutSubmit ==
  /\ appState = "ok"
  /\ checkout = "idle"
  /\ checkout' = "pending"
  /\ order' = [items |-> JsonLines(cart), total |-> JsonNumber(getCartTotal(cart))]
  /\ notification' = "none"
  /\ event' = Event("submit", 0, Null)
  /\ UNCHANGED <<appState, cart, stored, view, addRun>>

\* The request succeeded: the handler resumes, empties the cart and saves it;
\* it does not call updateCartUI.  The submit handler then notifies.
CheckoutSucceed ==
  /\ appState = "ok"
  /\ checkout = "pending"
  /\ cart' = <<>>
  /\ stored' = saveCart(cart')
  /\ checkout' = "idle"
  /\ order' = NoOrder
  /\ notification' = "Form submitted successfully!"
  /\ event' = Event("checkoutSuccess", 0, Null)
  /\ addRun' = NoRuns
  /\ UNCHANGED <<appState, view>>

\* How an order request can fail in makeRequest: fetch rejects; the body is
\* not JSON, so response.json() rejects; or the response is not ok, with or
\* without a message in its body.
FailedRequests ==
  { [kind |-> "rejected", message |-> "Failed to fetch"],
    [kind |-> "notjson", message |-> "Unexpected token '<'"],
    [kind |-> "notok", message |-> "Out of stock"],
    [kind |-> "notok", message |-> ""] }

\* The message of the error makeRequest throws: for a response that is not ok,
\* data.message || 'API request failed'; else the message of the rejection.
errorMessage(r) ==
  IF r.kind = "notok" /\ r.message = "" THEN "API request failed"
  ELSE r.message

\* The request failed: makeRequest throws, the submit handler catches and shows
\* the error's message.
CheckoutFailClears(r) ==
  /\ appState = "ok"
  /\ checkout = "pending"
  /\ cart' = <<>>
  /\ stored' = saveCart(cart')
  /\ checkout' = "idle"
  /\ order' = NoOrder
  /\ notification' = errorMessage(r)
  /\ event' = Event("checkoutFail", 0, Null)
  /\ addRun' = NoRuns
  /\ UNCHANGED <<appState, view>>

CheckoutFail(r) ==
  /\ appState = "ok"
  /\ checkout = "pending"
  /\ checkout' = "idle"
  /\ order' = NoOrder
  /\ notification' = errorMessage(r)
  /\ event' = Event("checkoutFail", 0, Null)
  /\ UNCHANGED <<appState, cart, stored, view, addRun>>

----------------------------------------------------------------------------
\* Specifications.

Next ==
  \/ \E product \in ProductCards : AddToCartClick(product)
  \/ \E i \in 1..MaxRows : RemoveClick(i)
  \/ \E i \in 1..MaxRows : MinusClick(i)
  \/ \E i \in 1..MaxRows : PlusClick(i)
  \/ \E i \in 1..MaxRows : \E text \in FieldTexts : QuantityChange(i, text)
  \/ SubmitInvalid
  \/ CheckoutSubmit
  \/ CheckoutSucceed
  \/ \E r \in FailedRequests : CheckoutFail(r)
  \/ Reload

\* From a first visit.
Spec == Init /\ [][Next]_vars

\* From any content of the stored entry: what another version of the site, the
\* user or a truncated write may have left under the key.
StoredValues ==
  {Absent, Garbage, JsonNull, JsonObject}
    \cup {saveCart(<<>>)}
    \cup {saveCart(addToCart(<<>>, product)) : product \in ProductCards}

InitHydrate == \E s \in StoredValues : PageLoad(s)

SpecHydrate == InitHydrate /\ [][Next]_vars

TypeOK ==
  /\ appState \in {"ok", "failed", "nonarray"}
  /\ checkout \in {"idle", "pending"}
  /\ \A i \in DOMAIN cart : cart[i].id \in CardIds

----------------------------------------------------------------------------
\* Properties.

HasLine(c, id) == Find(c, id) > 0
LinesOf(c, id) == {i \in DOMAIN c : c[i].id = id}
Max1(n) == IF n > 1 THEN n ELSE 1

\* C1: in every state reached from an empty cart, no two cart lines have the
\* same product id.
NoDuplicateIds ==
  \A i, j \in DOMAIN cart : cart[i].id = cart[j].id => i = j

\* A second addToCart of an id merged into its line while another line exists.
NoDuplicateIdsWitness ==
  /\ event.op = "addToCart"
  /\ Len(cart) = 2
  /\ HasLine(cart, event.id)
  /\ cart[Find(cart, event.id)].quantity = Num(2)

\* C2: the quantity of every cart line is an integer >= 1 in every reachable
\* state, also after updateQuantity with zero, a negative number or the value
\* parsed from non-numeric text.
QuantitiesPositive ==
  \A i \in DOMAIN cart :
    cart[i].quantity.k = "num" /\ cart[i].quantity.n >= 1

\* C3: whenever no handler is running, the stored snapshot is the in-memory
\* cart and the rendered badge count and total are those of the in-memory cart.
StoreAndViewInSync ==
  appState = "ok" =>
    /\ stored = saveCart(cart) \/ (stored = Absent /\ cart = <<>>)
    /\ view.count = totalItems(cart)
    /\ view.total = toFixed2(getCartTotal(cart))

\* C4: when the stored entry is absent or malformed, the script comes up with
\* an empty cart and working handlers.
HydrationNeverFails ==
  (event.op = "load" /\ stored.kind \in {"absent", "garbage", "null", "object"})
    => (appState = "ok" /\ cart = <<>>)

\* C5: a successful checkout leaves the cart empty and the store holding the
\* empty cart; a failed one changes neither the cart nor the store.
CheckoutOutcome ==
  [][ /\ event'.op = "checkoutSuccess" =>
           (cart' = <<>> /\ stored' = JsonArray(<<>>))
      /\ event'.op = "checkoutFail" =>
           (cart' = cart /\ stored' = stored) ]_vars

\* An order request failed while the cart held a line, and the line is kept.
CheckoutOutcomeWitness ==
  /\ event.op = "checkoutFail"
  /\ cart # <<>>
  /\ stored = saveCart(cart)

\* C6: removeFromCart(id) with an id that is not in the cart leaves the cart
\* unchanged and emits no notification.
RemoveAbsentIsSilent ==
  [][ (event'.op = "removeFromCart" /\ ~HasLine(cart, event'.id)) =>
        (cart' = cart /\ notification' = "none") ]_vars

\* C7: updateQuantity(id, q) with id present and q an integer sets that line's
\* quantity to max(1, q) and changes nothing else of the cart.
UpdateQuantityClamps ==
  [][ (/\ event'.op = "updateQuantity"
       /\ event'.q.k = "num"
       /\ HasLine(cart, event'.id)) =>
        /\ Len(cart') = Len(cart)
        /\ \A i \in DOMAIN cart :
             IF i = Find(cart, event'.id)
             THEN /\ cart'[i].quantity = Num(Max1(event'.q.n))
                  /\ cart'[i].id = cart[i].id
                  /\ cart'[i].name = cart[i].name
                  /\ cart'[i].price = cart[i].price
             ELSE cart'[i] = cart[i] ]_vars

\* updateQuantity with q <= 0 clamped the second of two lines to 1.
UpdateQuantityClampsWitness ==
  /\ event.op = "updateQuantity"
  /\ event.q.k = "num"
  /\ event.q.n <= 0
  /\ Len(cart) = 2
  /\ Find(cart, event.id) = 2
  /\ cart[2].quantity = Num(1)

\* C8: n >= 1 addToCart calls of one id on a cart that did not hold it leave
\* exactly one line of that id, with quantity n and the first call's name and
\* price.
AddsMerge ==
  \A id \in CardIds :
    addRun[id].n > 0 =>
      /\ Cardinality(LinesOf(cart, id)) = 1
      /\ \A i \in LinesOf(cart, id) :
           /\ cart[i].quantity = Num(addRun[id].n)
           /\ cart[i].name = addRun[id].name
           /\ cart[i].price = addRun[id].price

\* Two calls for one id were made, next to a line of another id.
AddsMergeWitness ==
  \E id \in CardIds :
    /\ addRun[id].n = 2
    /\ Len(cart) = 2

\* C9: hydrating what saveCart wrote gives the cart back: same lines, order,
\* ids, names, prices and quantities.
RoundTrip ==
  appState = "ok" => hydrate(saveCart(cart)).cart = cart

\* C10: every line and quantity that the clear after a successful order
\* removes from the cart was part of the order that was submitted.
NoLostUpdate ==
  [][ event'.op = "checkoutSuccess" => JsonLines(cart) = order.items ]_vars

====
